---- MODULE Spec2Model ----
(***************************************************************************)
(* Model of gujarati_speech_to_text.py: main() as a statement-level state  *)
(* machine over the temporary directory, the output directory, the wall    *)
(* clock, the console and the calls made to the speech model.              *)
(*                                                                         *)
(* Granularity: one action per statement (or external call) of main and   *)
(* of the functions it calls.  External calls may succeed or raise; a     *)
(* KeyboardInterrupt may arrive at any statement of main's try body.      *)
(* The except handlers and the finally block are not themselves           *)
(* interrupted, and os.remove on the program's own temp file succeeds.    *)
(***************************************************************************)
EXTENDS Integers, Sequences, FiniteSets, TLC

\* ------------------------------------------------------------------ bounds
\* Longest raw text the speech model returns (SpecValidate).
MaxLen == 2
\* Seconds of wall clock modelled beyond one recording window.
ExtraSecs == 2
\* Clock ticks per second: the clock is finer than the file name's resolution.
TicksPerSec == 2
\* Names the temporary directory can hand out.
NumTmpNames == 2

\* --------------------------------------------------------- program constants
RECORDING_DURATION == 5
MODEL_NAME == "medium"
ModelNames == {"tiny", "base", "small", "medium", "large"}

None == 0
Runs == {1, 2}
TmpNames == 1..NumTmpNames
MaxClock == (RECORDING_DURATION + ExtraSecs) * TicksPerSec

\* Representative code points: the two ends of each block the program tests,
\* their outer neighbours, a Latin letter, a digit and the space.
SPACE == 32
CodePoints ==
    { SPACE, 49, 65,
      2304, 2431,          \* U+0900, U+097F  Devanagari
      2687, 2688, 2815, 2816, \* U+0A7F | U+0A80, U+0AFF Gujarati | U+0B00
      2944, 3071,          \* U+0B80, U+0BFF  Tamil
      3072, 3199, 3200 }   \* U+0C00, U+0C7F  Telugu | U+0C80
\* The characters str.isspace() accepts (what strip() removes).
Whitespace ==
    { 9, 10, 11, 12, 13, 28, 29, 30, 31, SPACE, 133, 160, 5760, 8232, 8233,
      8239, 8287, 12288 } \cup (8192..8202)

SeqsUpTo(S, n) == UNION { [1..k -> S] : k \in 0..n }
AllTexts == SeqsUpTo(CodePoints, MaxLen)
\* The "language" key of the model's result; NoKey: the key is absent.
NoKey == "<absent>"
ResultLanguages == { "gu", "en", "hi", NoKey }
AllResults == [ text : AllTexts, language : ResultLanguages ]
\* A small family of results for the pipeline specifications.
FewTexts ==
    { <<>>, <<SPACE, 2688, SPACE>>, <<65, 49>>, <<3072, 2304>>, <<2944>> }
FewResults == [ text : FewTexts, language : { "gu", "en", NoKey } ]
TwoResults == [ text : { <<2688>>, <<65, 49>> }, language : { "gu" } ]

VARIABLES
    now,          \* wall clock, in ticks
    tmpdir,       \* names of the files in the system temporary directory
    outdir,       \* output directory: file name -> content
    modelCalls,   \* calls made to model.transcribe
    pc,           \* each run's position in main
    exc,          \* the exception a run raised, "none" if none
    audio_path,   \* main's audio_path
    temp_path,    \* save_audio_temp's temp_path
    recStart,     \* tick at which sd.rec started the recording
    model_name,   \* the configured MODEL_NAME of the run
    text,         \* transcribed_text
    lang,         \* detected_lang
    output_file,  \* output_file (the second its name carries)
    out,          \* lines printed to the console (tags)
    stages,       \* stages the run has started, in order
    startTick     \* tick at which the run started

vars == << now, tmpdir, outdir, modelCalls, pc, exc, audio_path, temp_path,
           recStart, model_name, text, lang, output_file, out, stages,
           startTick >>

\* ------------------------------------------------------------ pure functions
\* str.strip(): drop leading and trailing whitespace.
RECURSIVE LStrip(_)
LStrip(s) ==
    IF s # <<>> /\ Head(s) \in Whitespace THEN LStrip(Tail(s)) ELSE s
RECURSIVE RStrip(_)
RStrip(s) ==
    IF s # <<>> /\ s[Len(s)] \in Whitespace
    THEN RStrip(SubSeq(s, 1, Len(s) - 1)) ELSE s
Strip(s) == RStrip(LStrip(s))

\* result.get("language", "unknown")
GetLanguage(result) ==
    IF result.language = NoKey THEN "unknown" ELSE result.language

\* any(lo <= char <= hi for char in t)
AnyInRange(t, lo, hi) == \E i \in 1..Len(t) : lo <= t[i] /\ t[i] <= hi

\* Variant: all(...) in place of any(...).
has_only_gujarati_script(t) ==
    \A i \in 1..Len(t) : 2688 <= t[i] /\ t[i] <= 2815
has_gujarati_script(t) == AnyInRange(t, 2688, 2815)
has_telugu_script(t) == AnyInRange(t, 3072, 3199)
has_devanagari_script(t) == AnyInRange(t, 2304, 2431)
has_tamil_script(t) == AnyInRange(t, 2944, 3071)

\* Variant: the Devanagari test moved ahead of the Telugu test.
DetectedScriptDevanagariFirst(t) ==
    IF has_devanagari_script(t) THEN "Devanagari"
    ELSE IF has_telugu_script(t) THEN "Telugu"
    ELSE IF has_tamil_script(t) THEN "Tamil"
    ELSE "Latin/Romanized"

\* The if/elif chain that names the script found instead of Gujarati.
DetectedScript(t) ==
    IF has_telugu_script(t) THEN "Telugu"
    ELSE IF has_devanagari_script(t) THEN "Devanagari"
    ELSE IF has_tamil_script(t) THEN "Tamil"
    ELSE "Latin/Romanized"

\* The condition of the warning branch.
ScriptMismatch(t, l) == l = "gu" /\ ~has_gujarati_script(t)

\* datetime.now().strftime("%Y%m%d_%H%M%S"): the clock cut to whole seconds.
Timestamp(t) == t \div TicksPerSec

\* Variant: task="translate".
TranscribeArgsTranslate(path, name) ==
    [ model |-> name, path |-> path, language |-> "gu", task |-> "translate" ]

\* The keyword arguments of model.transcribe that fix language and task.
TranscribeArgs(path, name) ==
    [ model |-> name, path |-> path, language |-> "gu", task |-> "transcribe" ]

\* ------------------------------------------------------------------ helpers
Say(r, lines) == out' = [out EXCEPT ![r] = @ \o lines]
Goto(r, label) == pc' = [pc EXCEPT ![r] = label]
Enter(r, stage) == stages' = [stages EXCEPT ![r] = Append(@, stage)]

\* Statements inside main's try block (lines 135-188).
TryBody ==
    { "record", "wait", "save_alloc", "save_write", "save_return",
      "load_model", "transcribe", "display", "validate", "report_name",
      "report_save", "report_print" }

\* Variant: one clause catching every exception, interrupts included.
HandlerCatchAll(kind) == "except_err"

\* Which except clause takes an exception raised inside the try block.
Handler(kind) ==
    IF kind = "KeyboardInterrupt" THEN "except_ki" ELSE "except_err"

\* An exception leaves the try block for its handler.
Raise(r, kind) ==
    /\ pc' = [pc EXCEPT ![r] = Handler(kind)]
    /\ exc' = [exc EXCEPT ![r] = kind]

\* --------------------------------------------------------------- the clock
Tick ==
    /\ now < MaxClock
    /\ now' = now + 1
    /\ UNCHANGED << tmpdir, outdir, modelCalls, pc, exc, audio_path,
                    temp_path, recStart, model_name, text, lang,
                    output_file, out, stages, startTick >>

\* ------------------------------------------------------------------ main()
\* Lines 118-132: banner, configuration, audio_path = None.
Start(r) ==
    /\ pc[r] = "idle"
    /\ Goto(r, "record")
    /\ audio_path' = [audio_path EXCEPT ![r] = None]
    /\ startTick' = [startTick EXCEPT ![r] = now]
    /\ Say(r, << "banner" >>)
    /\ UNCHANGED << now, tmpdir, outdir, modelCalls, exc, temp_path,
                    recStart, model_name, text, lang, output_file, stages >>

\* record_audio, lines 27-36: sd.rec starts the recording.
RecStart(r) ==
    /\ pc[r] = "record"
    /\ Goto(r, "wait")
    /\ Enter(r, "capture")
    /\ recStart' = [recStart EXCEPT ![r] = now]
    /\ Say(r, << "recording" >>)
    /\ UNCHANGED << now, tmpdir, outdir, modelCalls, exc, audio_path,
                    temp_path, model_name, text, lang, output_file,
                    startTick >>

\* sd.rec raises: no usable input device.
RecFail(r) ==
    /\ pc[r] = "record"
    /\ Enter(r, "capture")
    /\ Raise(r, "Exception")
    /\ Say(r, << "recording" >>)
    /\ UNCHANGED << now, tmpdir, outdir, modelCalls, audio_path, temp_path,
                    recStart, model_name, text, lang, output_file,
                    startTick >>

\* record_audio, lines 39-43: sd.wait blocks until the window has passed.
RecWait(r) ==
    /\ pc[r] = "wait"
    /\ now >= recStart[r] + RECORDING_DURATION * TicksPerSec
    /\ Goto(r, "save_alloc")
    /\ Say(r, << "recorded" >>)
    /\ UNCHANGED << now, tmpdir, outdir, modelCalls, exc, audio_path,
                    temp_path, recStart, model_name, text, lang,
                    output_file, stages, startTick >>

\* save_audio_temp, lines 58-60: NamedTemporaryFile(delete=False) creates a
\* file under a name not in use and closes it; the file stays.
SaveAlloc(r) ==
    /\ pc[r] = "save_alloc"
    /\ \E n \in TmpNames \ tmpdir :
          /\ tmpdir' = tmpdir \cup {n}
          /\ temp_path' = [temp_path EXCEPT ![r] = n]
    /\ Goto(r, "save_write")
    /\ Enter(r, "write")
    /\ UNCHANGED << now, outdir, modelCalls, exc, audio_path, recStart,
                    model_name, text, lang, output_file, out, startTick >>

\* NamedTemporaryFile raises before any file exists.
SaveAllocFail(r) ==
    /\ pc[r] = "save_alloc"
    /\ Enter(r, "write")
    /\ Raise(r, "Exception")
    /\ UNCHANGED << now, tmpdir, outdir, modelCalls, audio_path, temp_path,
                    recStart, model_name, text, lang, output_file, out,
                    startTick >>

\* save_audio_temp, line 63: sf.write fills the file.
SfWrite(r) ==
    /\ pc[r] = "save_write"
    /\ Goto(r, "save_return")
    /\ UNCHANGED << now, tmpdir, outdir, modelCalls, exc, audio_path,
                    temp_path, recStart, model_name, text, lang,
                    output_file, out, stages, startTick >>

\* sf.write raises (disk full, permission); the allocated file stays.
SfWriteFail(r) ==
    /\ pc[r] = "save_write"
    /\ Raise(r, "Exception")
    /\ UNCHANGED << now, tmpdir, outdir, modelCalls, audio_path, temp_path,
                    recStart, model_name, text, lang, output_file, out,
                    stages, startTick >>

\* Line 65 and lines 142-143: return temp_path; audio_path = ...; print.
SaveReturn(r) ==
    /\ pc[r] = "save_return"
    /\ audio_path' = [audio_path EXCEPT ![r] = temp_path[r]]
    /\ Goto(r, "load_model")
    /\ Say(r, << "saved_temp" >>)
    /\ UNCHANGED << now, tmpdir, outdir, modelCalls, exc, temp_path,
                    recStart, model_name, text, lang, output_file, stages,
                    startTick >>

\* transcribe_audio, lines 80-87: whisper.load_model(model_name).
LoadModel(r) ==
    /\ pc[r] = "load_model"
    /\ Goto(r, "transcribe")
    /\ Enter(r, "transcribe")
    /\ Say(r, << "loading" >>)
    /\ UNCHANGED << now, tmpdir, outdir, modelCalls, exc, audio_path,
                    temp_path, recStart, model_name, text, lang,
                    output_file, startTick >>

\* whisper.load_model raises.
LoadModelFail(r) ==
    /\ pc[r] = "load_model"
    /\ Enter(r, "transcribe")
    /\ Raise(r, "Exception")
    /\ Say(r, << "loading" >>)
    /\ UNCHANGED << now, tmpdir, outdir, modelCalls, audio_path, temp_path,
                    recStart, model_name, text, lang, output_file,
                    startTick >>

\* The record of one model.transcribe call.
Call(r) ==
    [ run |-> r,
      args |-> TranscribeArgs(audio_path[r], model_name[r]),
      fileExists |-> audio_path[r] \in tmpdir ]

\* Variant: transcribe_audio removes the audio file once it has read it.
TranscribeAudioAndRemove(r, Results) ==
    /\ pc[r] = "transcribe"
    /\ modelCalls' = modelCalls \cup { Call(r) }
    /\ tmpdir' = tmpdir \ { audio_path[r] }
    /\ \E result \in Results :
          /\ text' = [text EXCEPT ![r] = Strip(result.text)]
          /\ lang' = [lang EXCEPT ![r] = GetLanguage(result)]
    /\ Goto(r, "display")
    /\ Say(r, << "detected" >>)
    /\ UNCHANGED << now, outdir, exc, audio_path, temp_path, recStart,
                    model_name, output_file, stages, startTick >>

\* transcribe_audio, lines 94-111: the call, strip, result.get, print.
TranscribeAudio(r, Results) ==
    /\ pc[r] = "transcribe"
    /\ modelCalls' = modelCalls \cup { Call(r) }
    /\ \E result \in Results :
          /\ text' = [text EXCEPT ![r] = Strip(result.text)]
          /\ lang' = [lang EXCEPT ![r] = GetLanguage(result)]
    /\ Goto(r, "display")
    /\ Say(r, << "detected" >>)
    /\ UNCHANGED << now, tmpdir, outdir, exc, audio_path, temp_path,
                    recStart, model_name, output_file, stages, startTick >>

\* model.transcribe raises (decoding failure).
TranscribeFail(r) ==
    /\ pc[r] = "transcribe"
    /\ modelCalls' = modelCalls \cup { Call(r) }
    /\ Raise(r, "Exception")
    /\ UNCHANGED << now, tmpdir, outdir, audio_path, temp_path, recStart,
                    model_name, text, lang, output_file, out, stages,
                    startTick >>

\* Lines 149-155: print the result.
Display(r) ==
    /\ pc[r] = "display"
    /\ Goto(r, "validate")
    /\ Enter(r, "validate")
    /\ Say(r, << "result" >>)
    /\ UNCHANGED << now, tmpdir, outdir, modelCalls, exc, audio_path,
                    temp_path, recStart, model_name, text, lang,
                    output_file, startTick >>

\* What lines 165-181 print for a text and a detected language.
WarningLines(t, l) ==
    IF ScriptMismatch(t, l)
    THEN << "warning", DetectedScript(t), "solutions" >>
    ELSE << >>

\* Lines 158-181: the script check and its warning.
Validate(r) ==
    /\ pc[r] = "validate"
    /\ Goto(r, "report_name")
    /\ Say(r, WarningLines(text[r], lang[r]))
    /\ UNCHANGED << now, tmpdir, outdir, modelCalls, exc, audio_path,
                    temp_path, recStart, model_name, text, lang,
                    output_file, stages, startTick >>

\* Lines 184-185: the output file's name from the clock.
ReportName(r) ==
    /\ pc[r] = "report_name"
    /\ output_file' = [output_file EXCEPT ![r] = Timestamp(now)]
    /\ Goto(r, "report_save")
    /\ Enter(r, "report")
    /\ UNCHANGED << now, tmpdir, outdir, modelCalls, exc, audio_path,
                    temp_path, recStart, model_name, text, lang, out,
                    startTick >>

\* open(name, 'w') followed by f.write(t): the file holds t alone.
WriteFile(dir, name, t) == (name :> t) @@ dir

\* Variant: the text is saved only when no mismatch was found.
ReportSaveUnlessWarned(r) ==
    /\ pc[r] = "report_save"
    /\ outdir' = IF ScriptMismatch(text[r], lang[r]) THEN outdir
                 ELSE WriteFile(outdir, output_file[r], text[r])
    /\ Goto(r, "report_print")
    /\ UNCHANGED << now, tmpdir, modelCalls, exc, audio_path, temp_path,
                    recStart, model_name, text, lang, output_file, out,
                    stages, startTick >>

\* Lines 186-187: with open(output_file, 'w') as f: f.write(text).
ReportSave(r) ==
    /\ pc[r] = "report_save"
    /\ outdir' = WriteFile(outdir, output_file[r], text[r])
    /\ Goto(r, "report_print")
    /\ UNCHANGED << now, tmpdir, modelCalls, exc, audio_path, temp_path,
                    recStart, model_name, text, lang, output_file, out,
                    stages, startTick >>

\* open raises: nothing is created.
ReportOpenFail(r) ==
    /\ pc[r] = "report_save"
    /\ Raise(r, "Exception")
    /\ UNCHANGED << now, tmpdir, outdir, modelCalls, audio_path, temp_path,
                    recStart, model_name, text, lang, output_file, out,
                    stages, startTick >>

\* f.write raises after open truncated or created the file.
ReportWriteFail(r) ==
    /\ pc[r] = "report_save"
    /\ outdir' = WriteFile(outdir, output_file[r], << >>)
    /\ Raise(r, "Exception")
    /\ UNCHANGED << now, tmpdir, modelCalls, audio_path, temp_path,
                    recStart, model_name, text, lang, output_file, out,
                    stages, startTick >>

\* Line 188: the last statement of the try block.
ReportPrint(r) ==
    /\ pc[r] = "report_print"
    /\ Goto(r, "finally")
    /\ Say(r, << "saved" >>)
    /\ UNCHANGED << now, tmpdir, outdir, modelCalls, exc, audio_path,
                    temp_path, recStart, model_name, text, lang,
                    output_file, stages, startTick >>

\* Ctrl-C while the try block runs.
Interrupt(r) ==
    /\ pc[r] \in TryBody
    /\ Raise(r, "KeyboardInterrupt")
    /\ UNCHANGED << now, tmpdir, outdir, modelCalls, audio_path, temp_path,
                    recStart, model_name, text, lang, output_file, out,
                    stages, startTick >>

\* Lines 190-191.
ExceptKI(r) ==
    /\ pc[r] = "except_ki"
    /\ Goto(r, "finally")
    /\ Say(r, << "interrupted" >>)
    /\ UNCHANGED << now, tmpdir, outdir, modelCalls, exc, audio_path,
                    temp_path, recStart, model_name, text, lang,
                    output_file, stages, startTick >>

\* Variant: the handler starts the pipeline over.
ExceptErrRetry(r) ==
    /\ pc[r] = "except_err"
    /\ Goto(r, "record")
    /\ Say(r, << "error", "traceback" >>)
    /\ UNCHANGED << now, tmpdir, outdir, modelCalls, exc, audio_path,
                    temp_path, recStart, model_name, text, lang,
                    output_file, stages, startTick >>

\* Lines 192-195.
ExceptErr(r) ==
    /\ pc[r] = "except_err"
    /\ Goto(r, "finally")
    /\ Say(r, << "error", "traceback" >>)
    /\ UNCHANGED << now, tmpdir, outdir, modelCalls, exc, audio_path,
                    temp_path, recStart, model_name, text, lang,
                    output_file, stages, startTick >>

\* Line 198: if audio_path and os.path.exists(audio_path).
MustClean(path, dir) == path # None /\ path \in dir

\* Variant: the cleanup sits at the end of the try block, not in finally.
FinallyAfterSuccess(r) ==
    /\ pc[r] = "finally"
    /\ Goto(r, "done")
    /\ IF exc[r] = "none" /\ MustClean(audio_path[r], tmpdir)
       THEN /\ tmpdir' = tmpdir \ { audio_path[r] }
            /\ Say(r, << "cleaned" >>)
       ELSE UNCHANGED << tmpdir, out >>
    /\ UNCHANGED << now, outdir, modelCalls, exc, audio_path, temp_path,
                    recStart, model_name, text, lang, output_file, stages,
                    startTick >>

\* Lines 196-200.
Finally(r) ==
    /\ pc[r] = "finally"
    /\ Goto(r, "done")
    /\ IF MustClean(audio_path[r], tmpdir)
       THEN /\ tmpdir' = tmpdir \ { audio_path[r] }
            /\ Say(r, << "cleaned" >>)
       ELSE UNCHANGED << tmpdir, out >>
    /\ UNCHANGED << now, outdir, modelCalls, exc, audio_path, temp_path,
                    recStart, model_name, text, lang, output_file, stages,
                    startTick >>

\* ----------------------------------------------------------- specifications
Idle ==
    /\ now = 0
    /\ tmpdir = {}
    /\ outdir = << >>
    /\ modelCalls = {}
    /\ pc = [r \in Runs |-> "idle"]
    /\ exc = [r \in Runs |-> "none"]
    /\ audio_path = [r \in Runs |-> None]
    /\ temp_path = [r \in Runs |-> None]
    /\ recStart = [r \in Runs |-> 0]
    /\ text = [r \in Runs |-> << >>]
    /\ lang = [r \in Runs |-> ""]
    /\ output_file = [r \in Runs |-> 0]
    /\ out = [r \in Runs |-> << >>]
    /\ stages = [r \in Runs |-> << >>]
    /\ startTick = [r \in Runs |-> 0]

\* One run, any supported model name configured.
Init ==
    /\ Idle
    /\ \E m \in ModelNames : model_name = [r \in Runs |-> m]

Step(r) ==
    \/ Start(r)
    \/ RecStart(r)
    \/ RecFail(r)
    \/ RecWait(r)
    \/ SaveAlloc(r)
    \/ SaveAllocFail(r)
    \/ SfWrite(r)
    \/ SfWriteFail(r)
    \/ SaveReturn(r)
    \/ LoadModel(r)
    \/ LoadModelFail(r)
    \/ TranscribeAudio(r, FewResults)
    \/ TranscribeFail(r)
    \/ Display(r)
    \/ Validate(r)
    \/ ReportName(r)
    \/ ReportSave(r)
    \/ ReportOpenFail(r)
    \/ ReportWriteFail(r)
    \/ ReportPrint(r)
    \/ Interrupt(r)
    \/ ExceptKI(r)
    \/ ExceptErr(r)
    \/ Finally(r)

Next == Tick \/ Step(1)

Spec == Init /\ [][Next]_vars

\* The state main is in when transcribe_audio has just returned `result` on
\* the default configuration: the inputs of the script check.
Transcribed(result) ==
    /\ now = RECORDING_DURATION * TicksPerSec
    /\ tmpdir = {1}
    /\ outdir = << >>
    /\ model_name = [r \in Runs |-> MODEL_NAME]
    /\ modelCalls =
          { [ run |-> 1, args |-> TranscribeArgs(1, MODEL_NAME),
              fileExists |-> TRUE ] }
    /\ pc = [r \in Runs |-> IF r = 1 THEN "display" ELSE "idle"]
    /\ exc = [r \in Runs |-> "none"]
    /\ audio_path = [r \in Runs |-> IF r = 1 THEN 1 ELSE None]
    /\ temp_path = [r \in Runs |-> IF r = 1 THEN 1 ELSE None]
    /\ recStart = [r \in Runs |-> 0]
    /\ text = [r \in Runs |-> IF r = 1 THEN Strip(result.text) ELSE << >>]
    /\ lang = [r \in Runs |-> IF r = 1 THEN GetLanguage(result) ELSE ""]
    /\ output_file = [r \in Runs |-> 0]
    /\ out = [r \in Runs |->
                IF r = 1
                THEN << "banner", "recording", "recorded", "saved_temp",
                        "loading", "detected" >>
                ELSE << >>]
    /\ stages = [r \in Runs |->
                   IF r = 1 THEN << "capture", "write", "transcribe" >>
                   ELSE << >>]
    /\ startTick = [r \in Runs |-> 0]

\* Script check and reporting over every result up to MaxLen characters.
InitValidate == \E result \in AllResults : Transcribed(result)

NextValidate ==
    \/ Display(1)
    \/ Validate(1)
    \/ ReportName(1)
    \/ ReportSave(1)
    \/ ReportPrint(1)
    \/ Finally(1)

SpecValidate == InitValidate /\ [][NextValidate]_vars

\* Two runs of the program side by side, both on the default configuration,
\* neither failing.
InitTwo ==
    /\ Idle
    /\ model_name = [r \in Runs |-> MODEL_NAME]

StepTwo(r) ==
    \/ Start(r)
    \/ RecStart(r)
    \/ RecWait(r)
    \/ SaveAlloc(r)
    \/ SfWrite(r)
    \/ SaveReturn(r)
    \/ LoadModel(r)
    \/ TranscribeAudio(r, TwoResults)
    \/ Display(r)
    \/ Validate(r)
    \/ ReportName(r)
    \/ ReportSave(r)
    \/ ReportPrint(r)
    \/ Finally(r)

NextTwo == Tick \/ \E r \in Runs : StepTwo(r)

SpecTwo == InitTwo /\ [][NextTwo]_vars

\* ------------------------------------------------------------------ claims
Printed(r, line) == \E i \in 1..Len(out[r]) : out[r][i] = line
StageOrder == << "capture", "write", "transcribe", "validate", "report" >>
IsPrefix(s, t) == Len(s) <= Len(t) /\ \A i \in 1..Len(s) : s[i] = t[i]
ScriptNames == { "Telugu", "Devanagari", "Tamil", "Latin/Romanized" }
\* The script check of the run has been made.
Validated(r) == pc[r] \in { "report_name", "report_save", "report_print" }
NoGujaratiChar(t) == \A i \in 1..Len(t) : t[i] < 2688 \/ t[i] > 2815
Saved(r) ==
    /\ output_file[r] \in DOMAIN outdir
    /\ outdir[output_file[r]] = text[r]

\* C1: once save_audio_temp has returned its path to main, the temporary
\* audio file is not on disk when the run has completed, whether the run
\* ended normally, by KeyboardInterrupt or by an Exception.
C1_TempFileGoneAtCompletion ==
    \A r \in Runs :
        (pc[r] = "done" /\ audio_path[r] # None) => audio_path[r] \notin tmpdir

\* A run whose output write failed has completed and its temp file is gone.
C1_Witness ==
    /\ pc[1] = "done"
    /\ exc[1] = "Exception"
    /\ audio_path[1] # None
    /\ audio_path[1] \notin tmpdir
    /\ Len(stages[1]) = 5
    /\ text[1] # << >>
    /\ output_file[1] \in DOMAIN outdir
    /\ outdir[output_file[1]] = << >>

\* C2: no temporary file created by a run remains when main has finished,
\* also when save_audio_temp failed or was interrupted after allocating it.
C2_NoTempFileLeft ==
    \A r \in Runs :
        (pc[r] = "done" /\ temp_path[r] # None) => temp_path[r] \notin tmpdir

\* C3: every call of model.transcribe, under every model name, carries
\* language "gu" and task "transcribe".
C3_CallsAreGujaratiTranscribe ==
    \A c \in modelCalls :
        /\ c.args.language = "gu"
        /\ c.args.task = "transcribe"
        /\ c.args.model \in ModelNames

\* A call has been made on a model other than the default one.
C3_Witness ==
    \E c \in modelCalls : c.args.model = "tiny" /\ pc[c.run] = "display"

\* C4: the mismatch warning is printed if and only if the detected language
\* is "gu" and no character of the text lies in U+0A80..U+0AFF.
C4_MismatchIffGuWithoutGujarati ==
    \A r \in Runs :
        Validated(r) =>
            (Printed(r, "warning")
                <=> (lang[r] = "gu" /\ NoGujaratiChar(text[r])))

\* Detected "gu", one Gujarati character beside a Telugu one: no warning.
C4_Witness ==
    /\ pc[1] = "report_name"
    /\ lang[1] = "gu"
    /\ text[1] = << 3072, 2815 >>
    /\ ~Printed(1, "warning")

\* C5: when the mismatch is reported exactly one script is named: Telugu if
\* any character is in U+0C00..U+0C7F, else Devanagari if any is in
\* U+0900..U+097F, else Tamil if any is in U+0B80..U+0BFF, else
\* Latin/Romanized.
C5_OneScriptNamedByPriority ==
    \A r \in Runs :
        (Validated(r) /\ lang[r] = "gu" /\ NoGujaratiChar(text[r])) =>
            LET t == text[r]
                named == { i \in 1..Len(out[r]) : out[r][i] \in ScriptNames }
                expected ==
                    CASE \E i \in 1..Len(t) : t[i] \in 3072..3199 -> "Telugu"
                      [] /\ \A i \in 1..Len(t) : t[i] \notin 3072..3199
                         /\ \E i \in 1..Len(t) : t[i] \in 2304..2431
                            -> "Devanagari"
                      [] /\ \A i \in 1..Len(t) :
                               t[i] \notin (3072..3199) \cup (2304..2431)
                         /\ \E i \in 1..Len(t) : t[i] \in 2944..3071
                            -> "Tamil"
                      [] OTHER -> "Latin/Romanized"
            IN  /\ Cardinality(named) = 1
                /\ \A i \in named : out[r][i] = expected

\* Devanagari before Telugu in the text: Telugu is named.
C5_Witness ==
    /\ pc[1] = "report_name"
    /\ lang[1] = "gu"
    /\ text[1] = << 2304, 3072 >>
    /\ Printed(1, "Telugu")

C7_DistinctNamesOwnText ==
    ( /\ \A r \in Runs : pc[r] = "done" /\ exc[r] = "none"
      /\ Timestamp(startTick[1]) # Timestamp(startTick[2]) )
    => /\ output_file[1] # output_file[2]
       /\ \A r \in Runs : Saved(r)

\* C8: from save_audio_temp's return until the cleanup the temporary file
\* is on disk, and the model read it only while it was.
C8_TempFileExistsUntilCleanup ==
    /\ \A r \in Runs :
          (audio_path[r] # None /\ pc[r] # "done") => audio_path[r] \in tmpdir
    /\ \A c \in modelCalls : c.fileExists

\* After a failed transcription, before the cleanup, the file is there.
C8_Witness ==
    /\ pc[1] = "finally"
    /\ exc[1] = "Exception"
    /\ modelCalls # {}
    /\ audio_path[1] # None
    /\ audio_path[1] \in tmpdir

\* C9: stages start in the order capture, write, transcribe, validate,
\* report, each at most once; once a run has failed or been interrupted it
\* starts no stage, makes no model call, writes no output file, and only
\* goes through its handler and the cleanup.
C9_LinearNoRetry ==
    [][ \A r \in Runs :
          /\ IsPrefix(stages'[r], StageOrder)
          /\ pc'[r] # pc[r] =>
                /\ modelCalls' # modelCalls
                      => stages'[r] = SubSeq(StageOrder, 1, 3)
                /\ outdir' # outdir => stages'[r] = StageOrder
                /\ exc[r] # "none" =>
                      /\ stages'[r] = stages[r]
                      /\ modelCalls' = modelCalls
                      /\ outdir' = outdir
                      /\ exc'[r] = exc[r]
                      /\ pc'[r] \in { "finally", "done" } ]_vars

\* The temp-file write failed: two stages started, no call, no output.
C9_Witness ==
    /\ pc[1] = "done"
    /\ exc[1] = "Exception"
    /\ stages[1] = << "capture", "write" >>
    /\ modelCalls = {}
    /\ outdir = << >>

\* C10: a finished run reports exactly one outcome: an interrupt only the
\* interruption notice, any other error the message with the trace, and
\* otherwise the saved notice.
C10_OneOutcomeReported ==
    \A r \in Runs :
        pc[r] = "done" =>
            /\ Cardinality({ l \in { "saved", "interrupted", "error" } :
                                Printed(r, l) }) = 1
            /\ exc[r] = "KeyboardInterrupt" =>
                  Printed(r, "interrupted") /\ ~Printed(r, "traceback")
            /\ exc[r] = "Exception" =>
                  Printed(r, "error") /\ Printed(r, "traceback")
            /\ exc[r] = "none" => Printed(r, "saved")

\* Interrupted between writing the output file and announcing it.
C10_Witness ==
    /\ pc[1] = "done"
    /\ exc[1] = "KeyboardInterrupt"
    /\ Saved(1)
    /\ Printed(1, "interrupted")

====
